---- MODULE Spec2Model ----
(***************************************************************************)
(* Model of app.py, the flight-delay dashboard: the cached loader          *)
(* load_data, the sidebar controls, the filter, the aggregations and the   *)
(* six tabs.  The script body runs top to bottom on every (re)run; the     *)
(* only values that survive a rerun are the st.cache_data entry of         *)
(* load_data and the widgets' current values.                              *)
(*                                                                         *)
(* Values.  A missing DEPARTURE_DELAY (NaN) is the empty tuple and a       *)
(* present delay d is <<d>>; None (what a selectbox over no options        *)
(* returns) is the empty tuple and a chosen value v is <<v>>.  Delays are  *)
(* whole minutes.  A mean is the exact fraction sum/count in lowest terms; *)
(* float64 rounding is not modelled.  String order (sorted(), groupby key  *)
(* order) is the position in the code tables CarrierCodes / AirportCodes,  *)
(* which list their codes in lexicographic order.                          *)
(***************************************************************************)
EXTENDS Integers, Sequences, FiniteSets, TLC

VARIABLES
    cache,              \* st.cache_data entries of load_data: nrows -> DataFrame
    call,               \* the latest load_data call: argument, read or not, outcome
    status,             \* "init", "error" (load_data raised) or "ok" (it returned)
    ui,                 \* elements rendered by the latest script run, in order
    df, preview, airline_opts, airline, months, month_widget, month,
    filtered, monthly, trend, counts, top5_airports, df_top5,
    heat, heat_pivot, scatter_matrix_df,
    sort_memo           \* the library sort's latest input and result (see Body)

vars == <<cache, call, status, ui, df, preview, airline_opts, airline, months,
          month_widget, month, filtered, monthly, trend, counts, top5_airports,
          df_top5, heat, heat_pivot, scatter_matrix_df, sort_memo>>

----------------------------------------------------------------------------
(* Bounds and program constants *)

MaxRows == 3            \* longest source file of the main specification
MaxLoadRows == 3        \* longest source file of the loader specification
MaxTopRows == 7         \* longest carrier/month block of the top-5 specification

DefaultNrows == 200000  \* load_data(nrows=200_000)
TopN == 5               \* nlargest(5)
PreviewRows == 20       \* df.head(20)

None == << >>
Some(v) == <<v>>
NaN == << >>

CarrierCodes == <<"AA", "UA">>
AirportCodes == <<"ATL", "BOS", "DEN", "DFW", "JFK", "LAX">>

----------------------------------------------------------------------------
(* Generic helpers standing for Python / pandas built-ins *)

Min(S) == CHOOSE x \in S : \A y \in S : x <= y
Max(S) == CHOOSE x \in S : \A y \in S : x >= y

RECURSIVE SortedInts(_)
\* sorted(S) for a set of integers
SortedInts(S) ==
    IF S = {} THEN << >> ELSE <<Min(S)>> \o SortedInts(S \ {Min(S)})

Rank(codes, c) == CHOOSE i \in 1..Len(codes) : codes[i] = c

\* sorted(S) for a set of codes of the table `codes`
SortedCodes(codes, S) ==
    LET r == SortedInts({Rank(codes, c) : c \in S})
    IN  [i \in 1..Len(r) |-> codes[r[i]]]

Range(s) == {s[i] : i \in 1..Len(s)}

Head_n(s, n) == SubSeq(s, 1, IF n < Len(s) THEN n ELSE Len(s))

RECURSIVE SumDelays(_)
SumDelays(rows) ==
    IF rows = << >> THEN 0
    ELSE Head(rows).DEPARTURE_DELAY[1] + SumDelays(Tail(rows))

RECURSIVE GCD(_, _)
GCD(a, b) == IF b = 0 THEN a ELSE GCD(b, a % b)

Abs(x) == IF x < 0 THEN -x ELSE x

\* ("DEPARTURE_DELAY", "mean") over a non-empty group
Mean(rows) ==
    LET s == SumDelays(rows)
        n == Len(rows)
        g == GCD(Abs(s), n)
    IN  [num |-> s \div g, den |-> n \div g]

----------------------------------------------------------------------------
(* Data Loader *)

NoSource == [state |-> "not_read", rows |-> << >>]

\* pd.read_csv("flights.csv", usecols=cols, dtype=dtypes, nrows=nrows)
read_csv(src, nrows) ==
    IF src.state = "unreadable" THEN [err |-> "FileNotFoundError", df |-> << >>]
    ELSE IF src.state = "missing_column" THEN [err |-> "ValueError", df |-> << >>]
    ELSE LET k == IF nrows < Len(src.rows) THEN nrows ELSE Len(src.rows)
         IN  [err |-> "",
              df  |-> [i \in 1..k |->
                        [idx |-> i - 1,
                         MONTH |-> src.rows[i].MONTH,
                         DAY |-> src.rows[i].DAY,
                         AIRLINE |-> src.rows[i].AIRLINE,
                         ORIGIN_AIRPORT |-> src.rows[i].ORIGIN_AIRPORT,
                         DEPARTURE_DELAY |-> src.rows[i].DEPARTURE_DELAY]]]

notna(row) == row.DEPARTURE_DELAY # NaN

\* load_data with the filter applied before the row cap
load_data_filter_then_cap(src, nrows) ==
    LET r == read_csv(src, Len(src.rows))
    IN  IF r.err # "" THEN r
        ELSE [err |-> "", df |-> Head_n(SelectSeq(r.df, notna), nrows)]

\* load_data answering a failed read with an empty frame
load_data_empty_on_error(src, nrows) ==
    [err |-> "", df |-> SelectSeq(read_csv(src, nrows).df, notna)]

\* the body of load_data: read, then df[df["DEPARTURE_DELAY"].notna()]
load_data(src, nrows) ==
    LET r == read_csv(src, nrows)
    IN  IF r.err # "" THEN r
        ELSE [err |-> "", df |-> SelectSeq(r.df, notna)]

----------------------------------------------------------------------------
(* Sidebar controls *)

\* st.sidebar.selectbox(label, options): the user's current choice, else the
\* first option, else None when there is no option
selectbox(options, chosen) ==
    IF chosen # None /\ chosen[1] \in Range(options) THEN chosen
    ELSE IF options = << >> THEN None
    ELSE Some(options[1])

\* st.sidebar.select_slider(label, options=options, value=value)
select_slider(options, value, chosen) ==
    IF chosen # None /\ chosen[1] \in Range(options) THEN chosen
    ELSE Some(value)

\* the test of line 45 off by one: a slider as soon as there is one month
MonthWidget_slider_for_one(ms) == IF Len(ms) >= 1 THEN "select_slider" ELSE "selectbox"

\* which control line 45 builds for the month
MonthWidget(ms) == IF Len(ms) > 1 THEN "select_slider" ELSE "selectbox"

\* the month returned by the control of lines 45-48
MonthControl(ms, chosen) ==
    IF Len(ms) > 1 THEN select_slider(ms, ms[1], chosen)
    ELSE selectbox(ms, chosen)

----------------------------------------------------------------------------
(* Filter Stage *)

\* the filter with the month condition left out
Filtered_airline_only(d, a, m) ==
    SelectSeq(d, LAMBDA r : a # None /\ r.AIRLINE = a[1])

\* df[(df["AIRLINE"] == airline) & (df["MONTH"] == month)]
Filtered(d, a, m) ==
    SelectSeq(d, LAMBDA r : /\ a # None
                            /\ m # None
                            /\ r.AIRLINE = a[1]
                            /\ r.MONTH = m[1])

----------------------------------------------------------------------------
(* Aggregation Stage *)

\* the monthly table with the mean taken over the whole frame in every row
Monthly_overall_mean(d) ==
    LET ks == SortedInts({d[i].MONTH : i \in 1..Len(d)})
    IN  [k \in 1..Len(ks) |-> [MONTH |-> ks[k], retard_moyen |-> Mean(d)]]

\* df.groupby("MONTH", as_index=False).agg(retard_moyen=(delay, "mean")):
\* one row per key, keys ascending
Monthly(d) ==
    LET ks == SortedInts({d[i].MONTH : i \in 1..Len(d)})
    IN  [k \in 1..Len(ks) |->
            [MONTH |-> ks[k],
             retard_moyen |-> Mean(SelectSeq(d, LAMBDA r : r.MONTH = ks[k]))]]

\* filtered.groupby("DAY", as_index=False).agg(retard_moyen=(delay, "mean"))
Trend(f) ==
    LET ks == SortedInts({f[i].DAY : i \in 1..Len(f)})
    IN  [k \in 1..Len(ks) |->
            [DAY |-> ks[k],
             retard_moyen |-> Mean(SelectSeq(f, LAMBDA r : r.DAY = ks[k]))]]

RECURSIVE FirstSeen(_)
\* the distinct airports of f in order of first appearance
FirstSeen(f) ==
    IF f = << >> THEN << >>
    ELSE LET a == Head(f).ORIGIN_AIRPORT
         IN  <<a>> \o FirstSeen(SelectSeq(Tail(f), LAMBDA r : r.ORIGIN_AIRPORT # a))

CountOf(f, a) == Cardinality({i \in 1..Len(f) : f[i].ORIGIN_AIRPORT = a})

\* the hash-table pass of Series.value_counts: one entry per airport, in order
\* of first appearance
value_counts_unsorted(f) ==
    LET as == FirstSeen(f)
    IN  [i \in 1..Len(as) |-> [ORIGIN_AIRPORT |-> as[i], count |-> CountOf(f, as[i])]]

RECURSIVE DescOrders(_)
\* every arrangement of the entries E in non-increasing count order
DescOrders(E) ==
    IF E = {} THEN {<< >>}
    ELSE LET mx == Max({e.count : e \in E})
         IN  UNION {{<<e>> \o t : t \in DescOrders(E \ {e})} :
                        e \in {x \in E : x.count = mx}}

\* value_counts(sort=False): the entries are left in order of first appearance
sort_values_none(s) == {s}

\* Series.sort_values(ascending=False), kind="quicksort" (the default): the
\* sort is not stable, so entries of equal count may come out in any order
sort_values(s) == DescOrders(Range(s))

RECURSIVE StableDesc(_)
\* stable descending sort: equal counts keep the order they have in s
StableDesc(s) ==
    IF s = << >> THEN << >>
    ELSE LET mx == Max({s[i].count : i \in 1..Len(s)})
             j  == Min({i \in 1..Len(s) : s[i].count = mx})
         IN  <<s[j]>> \o StableDesc(SubSeq(s, 1, j - 1) \o SubSeq(s, j + 1, Len(s)))

\* Series.nlargest(n), keep="first": with n >= len(s) pandas returns
\* s.sort_values(ascending=False).head(n); otherwise the n largest, equal
\* values in the order they have in s
nlargest(s, n) ==
    IF n >= Len(s) THEN {Head_n(t, n) : t \in sort_values(s)}
    ELSE {Head_n(StableDesc(s), n)}

\* filtered["ORIGIN_AIRPORT"].value_counts(): the possible results
value_counts(f) == sort_values(value_counts_unsorted(f))

\* filtered["ORIGIN_AIRPORT"].value_counts().nlargest(5): the possible results
Counts(f) == UNION {nlargest(v, TopN) : v \in value_counts(f)}

\* counts.index.tolist()
Top5Airports(c) == [i \in 1..Len(c) |-> c[i].ORIGIN_AIRPORT]

\* the heatmap input without the restriction to the top airports
DfTop5_unrestricted(f, top) == f

\* filtered[filtered["ORIGIN_AIRPORT"].isin(top5_airports)]
DfTop5(f, top) == SelectSeq(f, LAMBDA r : r.ORIGIN_AIRPORT \in Range(top))

RECURSIVE Concat(_)
Concat(ss) == IF ss = << >> THEN << >> ELSE Head(ss) \o Concat(Tail(ss))

\* the observed (airport, day) keys of t, airports ascending, days ascending
\* within an airport
HeatKeys(t) ==
    LET as == SortedCodes(AirportCodes, {t[i].ORIGIN_AIRPORT : i \in 1..Len(t)})
        days(a) == SortedInts({t[i].DAY : i \in {j \in 1..Len(t) : t[j].ORIGIN_AIRPORT = a}})
    IN  Concat([k \in 1..Len(as) |->
                  [n \in 1..Len(days(as[k])) |-> <<as[k], days(as[k])[n]>>]])

\* df_top5.groupby(["ORIGIN_AIRPORT","DAY"], as_index=False).agg(mean):
\* one row per observed (airport, day), keys ascending
Heat(t) ==
    LET ks == HeatKeys(t)
    IN  [k \in 1..Len(ks) |->
            [ORIGIN_AIRPORT |-> ks[k][1],
             DAY |-> ks[k][2],
             retard_moyen |->
                Mean(SelectSeq(t, LAMBDA r : r.ORIGIN_AIRPORT = ks[k][1] /\ r.DAY = ks[k][2]))]]

\* heat.pivot(index="ORIGIN_AIRPORT", columns="DAY", values="retard_moyen"):
\* a cell without a heat row is NaN
HeatPivot(h) ==
    LET ix == SortedCodes(AirportCodes, {h[i].ORIGIN_AIRPORT : i \in 1..Len(h)})
        cs == SortedInts({h[i].DAY : i \in 1..Len(h)})
    IN  [index |-> ix,
         columns |-> cs,
         values |-> [p \in Range(ix) \X Range(cs) |->
                        IF \E i \in 1..Len(h) :
                              h[i].ORIGIN_AIRPORT = p[1] /\ h[i].DAY = p[2]
                        THEN LET i == CHOOSE i \in 1..Len(h) :
                                        h[i].ORIGIN_AIRPORT = p[1] /\ h[i].DAY = p[2]
                             IN  Some(h[i].retard_moyen)
                        ELSE NaN]]

ScatterColumns == 2
\* filtered[["DAY", "DEPARTURE_DELAY"]]
ScatterMatrixDf(f) ==
    [i \in 1..Len(f) |->
        [idx |-> f[i].idx, DAY |-> f[i].DAY, DEPARTURE_DELAY |-> f[i].DEPARTURE_DELAY]]

----------------------------------------------------------------------------
(* Presentation Stage *)

\* pd.plotting.scatter_matrix(scatter_matrix_df, ..., diagonal='kde'): the
\* diagonal of each column is scipy's gaussian_kde of its values, which raises
\* on a single value (ValueError) and on values that are all equal (singular
\* covariance, LinAlgError)
scatter_matrix(sm) ==
    IF /\ Cardinality({sm[i].DAY : i \in 1..Len(sm)}) >= 2
       /\ Cardinality({sm[i].DEPARTURE_DELAY : i \in 1..Len(sm)}) >= 2
    THEN "figure"
    ELSE "raise"

\* tabs[5]: the scatter matrix, or one of the two warnings
ScatterTab(sm) ==
    IF sm # << >> /\ ScatterColumns > 1
    THEN IF scatter_matrix(sm) = "figure"
         THEN <<"subheader", "scatter_matrix", "pyplot">>
         ELSE <<"subheader", "scatter_matrix", "exception">>
    ELSE IF sm = << >> THEN <<"subheader", "warning:no_data">>
    ELSE <<"subheader", "warning:columns">>

\* what a run renders once load_data has returned, in order
Rendered(ms, sm) ==
    <<"title", "success", "dataframe", "sidebar.header", "sidebar.selectbox:Compagnie">>
    \o <<IF MonthWidget(ms) = "select_slider" THEN "sidebar.select_slider:Mois"
         ELSE "sidebar.selectbox:Mois">>
    \o <<"tabs", "bar:monthly", "line:trend", "bar:counts", "box:df_top5",
         "imshow:heat_pivot">>
    \o ScatterTab(sm)

\* what a run renders when load_data raises: the title, then the exception
RenderedOnError == <<"title", "exception">>

EmptyPivot == [index |-> << >>, columns |-> << >>, values |-> << >>]

----------------------------------------------------------------------------
(* The cached loader and the script *)

NoCall == [n |-> -1, read |-> FALSE, src |-> NoSource, err |-> "no call", ret |-> << >>]

\* a cache that ignores the argument: any stored result answers any call
st_cache_data_one_slot(n, S) ==
    IF DOMAIN cache # {}
    THEN {[call |-> [n |-> n, read |-> FALSE, src |-> NoSource, err |-> "",
                     ret |-> cache[k]],
           cache |-> cache] : k \in DOMAIN cache}
    ELSE {LET r == load_data(src, n)
          IN  [call |-> [n |-> n, read |-> TRUE, src |-> src, err |-> r.err,
                         ret |-> r.df],
               cache |-> IF r.err = "" THEN cache @@ (n :> r.df) ELSE cache]
          : src \in S}

\* a cache that hands out the stored frame itself, so that a hit leaves the
\* entry one record shorter (an in-place change made by the caller)
st_cache_data_shared(n, S) ==
    IF n \in DOMAIN cache
    THEN {[call |-> [n |-> n, read |-> FALSE, src |-> NoSource, err |-> "",
                     ret |-> cache[n]],
           cache |-> [cache EXCEPT ![n] = IF @ = << >> THEN @ ELSE Tail(@)]]}
    ELSE {LET r == load_data(src, n)
          IN  [call |-> [n |-> n, read |-> TRUE, src |-> src, err |-> r.err,
                         ret |-> r.df],
               cache |-> IF r.err = "" THEN cache @@ (n :> r.df) ELSE cache]
          : src \in S}

\* @st.cache_data around load_data: the possible outcomes of load_data(n) when
\* the file holds one of the contents S.  A cached argument returns the stored
\* result and reads nothing; otherwise the body runs, and its result is stored
\* unless it raised
st_cache_data(n, S) ==
    IF n \in DOMAIN cache
    THEN {[call |-> [n |-> n, read |-> FALSE, src |-> NoSource, err |-> "",
                     ret |-> cache[n]],
           cache |-> cache]}
    ELSE {LET r == load_data(src, n)
          IN  [call |-> [n |-> n, read |-> TRUE, src |-> src, err |-> r.err,
                         ret |-> r.df],
               cache |-> IF r.err = "" THEN cache @@ (n :> r.df) ELSE cache]
          : src \in S}

\* the possible values of counts (line 72).  The library's sort is a fixed
\* algorithm: which order it gives to equal counts is not specified, but the
\* same series sorts the same way every time, so a run over the series of the
\* previous run gets the previous result
CountsOfRun(f) ==
    IF sort_memo.input = value_counts_unsorted(f) THEN {sort_memo.output}
    ELSE Counts(f)

\* lines 33-159 of a run whose load returned d
Body(d, chosenA, chosenM) ==
    LET ao == SortedCodes(CarrierCodes, {d[i].AIRLINE : i \in 1..Len(d)})
        a  == selectbox(ao, chosenA)
        ms == SortedInts({d[i].MONTH : i \in 1..Len(d)})
        m  == MonthControl(ms, chosenM)
        f  == Filtered(d, a, m)
    IN  /\ status' = "ok"
        /\ df' = d
        /\ preview' = Head_n(d, PreviewRows)
        /\ airline_opts' = ao
        /\ airline' = a
        /\ months' = ms
        /\ month_widget' = MonthWidget(ms)
        /\ month' = m
        /\ filtered' = f
        /\ monthly' = Monthly(d)
        /\ trend' = Trend(f)
        /\ \E c \in CountsOfRun(f) :
              /\ counts' = c
              /\ sort_memo' = [input |-> value_counts_unsorted(f), output |-> c]
              /\ top5_airports' = Top5Airports(c)
              /\ df_top5' = DfTop5(f, Top5Airports(c))
              /\ heat' = Heat(DfTop5(f, Top5Airports(c)))
              /\ heat_pivot' = HeatPivot(Heat(DfTop5(f, Top5Airports(c))))
        /\ scatter_matrix_df' = ScatterMatrixDf(f)
        /\ ui' = Rendered(ms, ScatterMatrixDf(f))

\* a run whose load raised: the exception ends the script at line 32
Failed ==
    /\ status' = "error"
    /\ ui' = RenderedOnError
    /\ df' = << >> /\ preview' = << >>
    /\ airline_opts' = << >> /\ airline' = None
    /\ months' = << >> /\ month_widget' = "" /\ month' = None
    /\ filtered' = << >> /\ monthly' = << >> /\ trend' = << >>
    /\ counts' = << >> /\ top5_airports' = << >> /\ df_top5' = << >>
    /\ heat' = << >> /\ heat_pivot' = EmptyPivot
    /\ scatter_matrix_df' = << >>
    /\ UNCHANGED sort_memo

\* one execution of the script, top to bottom, with the widgets' current values
Script(S, chosenA, chosenM) ==
    \E o \in st_cache_data(DefaultNrows, S) :
        /\ call' = o.call
        /\ cache' = o.cache
        /\ IF o.call.err = "" THEN Body(o.call.ret, chosenA, chosenM) ELSE Failed

\* the widget values a rerun starts from
Kept(v) == IF status = "ok" THEN v ELSE None

\* first load of the page, or a rerun without a change of selection
Rerun(S) == Script(S, Kept(airline), Kept(month))

\* the user picks carrier a in the sidebar
SelectCarrier(S, a) ==
    /\ status = "ok"
    /\ a \in Range(airline_opts)
    /\ Script(S, Some(a), month)

\* the user picks month m in the sidebar
SelectMonth(S, m) ==
    /\ status = "ok"
    /\ m \in Range(months)
    /\ Script(S, airline, Some(m))

\* a direct call load_data(n), outside a script run
CallLoadData(S, n) ==
    /\ \E o \in st_cache_data(n, S) :
          /\ call' = o.call
          /\ cache' = o.cache
    /\ UNCHANGED <<status, ui, df, preview, airline_opts, airline, months,
                   month_widget, month, filtered, monthly, trend, counts,
                   top5_airports, df_top5, heat, heat_pivot, scatter_matrix_df,
                   sort_memo>>

----------------------------------------------------------------------------
(* Source files *)

SeqsUpTo(R, n) == UNION {[1..k -> R] : k \in 0..n}

Unreadable == [state |-> "unreadable", rows |-> << >>]
MissingColumn == [state |-> "missing_column", rows |-> << >>]
File(rows) == [state |-> "ok", rows |-> rows]

\* main specification: two carriers, two months, delays missing or present;
\* the first two flights are of one day and the later ones of the days after
MainDays == <<15, 15, 16, 17, 18>>

MainRows == [MONTH : {1, 2}, AIRLINE : {"AA", "UA"}, DEPARTURE_DELAY : {NaN, Some(-5), Some(10)}]

MainFile(rs) ==
    File([i \in 1..Len(rs) |->
            [MONTH |-> rs[i].MONTH, DAY |-> MainDays[i], AIRLINE |-> rs[i].AIRLINE,
             ORIGIN_AIRPORT |-> "ATL", DEPARTURE_DELAY |-> rs[i].DEPARTURE_DELAY]])

Sources ==
    {MainFile(rs) : rs \in SeqsUpTo(MainRows, MaxRows)} \cup {Unreadable, MissingColumn}

\* loader specification: rows that differ in their delay only
LoadRows ==
    [MONTH : {1}, DAY : {15}, AIRLINE : {"AA"}, ORIGIN_AIRPORT : {"ATL"},
     DEPARTURE_DELAY : {NaN, Some(10)}]

LoadSources ==
    {File(rs) : rs \in SeqsUpTo(LoadRows, MaxLoadRows)} \cup {Unreadable, MissingColumn}

Caps == {0, 2}

\* top-5 specification: one UA flight, then up to MaxTopRows AA flights of month
\* 1 whose airports are named in order of first appearance (any other file of
\* that shape is one of these up to a renaming of airports)
TopDays == <<1, 1, 2, 1, 2, 2, 3, 3, 1>>
TopDelays == <<10, -5, 20, 0, 7, -2, 31, 4, 12>>

RECURSIVE AirportPatterns(_)
AirportPatterns(k) ==
    IF k = 0 THEN {<< >>}
    ELSE UNION {{Append(s, a) : a \in 1..Min({Len(AirportCodes), Max(Range(s) \cup {0}) + 1})} :
                    s \in AirportPatterns(k - 1)}

TopFile(p) ==
    File(<<[MONTH |-> 1, DAY |-> 1, AIRLINE |-> "UA", ORIGIN_AIRPORT |-> AirportCodes[1],
            DEPARTURE_DELAY |-> Some(60)]>>
         \o [i \in 1..Len(p) |->
                [MONTH |-> 1, DAY |-> TopDays[i], AIRLINE |-> "AA",
                 ORIGIN_AIRPORT |-> AirportCodes[p[i]],
                 DEPARTURE_DELAY |-> Some(TopDelays[i])]])

TopSources == {TopFile(p) : p \in UNION {AirportPatterns(k) : k \in 0..MaxTopRows}}

----------------------------------------------------------------------------
(* Specifications *)

Init ==
    /\ cache = << >>
    /\ call = NoCall
    /\ status = "init"
    /\ ui = << >>
    /\ df = << >> /\ preview = << >>
    /\ airline_opts = << >> /\ airline = None
    /\ months = << >> /\ month_widget = "" /\ month = None
    /\ filtered = << >> /\ monthly = << >> /\ trend = << >>
    /\ counts = << >> /\ top5_airports = << >> /\ df_top5 = << >>
    /\ heat = << >> /\ heat_pivot = EmptyPivot
    /\ scatter_matrix_df = << >>
    /\ sort_memo = [input |-> << >>, output |-> << >>]

Next ==
    \/ Rerun(Sources)
    \/ \E a \in Range(CarrierCodes) : SelectCarrier(Sources, a)
    \/ \E m \in 1..12 : SelectMonth(Sources, m)

Spec == Init /\ [][Next]_vars

NextLoad ==
    \/ Rerun(LoadSources)
    \/ \E n \in Caps : CallLoadData(LoadSources, n)

SpecLoad == Init /\ [][NextLoad]_vars

NextTop ==
    \/ Rerun(TopSources)
    \/ \E a \in Range(CarrierCodes) : SelectCarrier(TopSources, a)

SpecTop == Init /\ [][NextTop]_vars

----------------------------------------------------------------------------
(* Properties *)

DelayRows(rows, n) ==
    {j \in 1..Len(rows) : j <= n /\ rows[j].DEPARTURE_DELAY # NaN}

SameFields(r, raw) ==
    /\ r.MONTH = raw.MONTH /\ r.DAY = raw.DAY /\ r.AIRLINE = raw.AIRLINE
    /\ r.ORIGIN_AIRPORT = raw.ORIGIN_AIRPORT
    /\ r.DEPARTURE_DELAY = raw.DEPARTURE_DELAY

\* C1: whenever load_data(N) reads a readable source, it returns at most N
\* rows, each with a delay, and they are exactly the rows among the first N
\* source rows whose delay is present, in source order
C1_LoadDataRows ==
    (call.read /\ call.err = "") =>
        LET n == call.n
            rows == call.src.rows
            r == call.ret
        IN  /\ Len(r) <= n
            /\ \A i \in 1..Len(r) :
                  /\ r[i].DEPARTURE_DELAY # NaN
                  /\ r[i].idx + 1 \in DelayRows(rows, n)
                  /\ SameFields(r[i], rows[r[i].idx + 1])
            /\ \A i \in 1..Len(r) - 1 : r[i].idx < r[i + 1].idx
            /\ \A j \in DelayRows(rows, n) : \E i \in 1..Len(r) : r[i].idx = j - 1

\* the cap bites before the filter: the source holds N rows with a delay, yet
\* fewer than N (and more than none) are returned
C1_Witness ==
    /\ call.read /\ call.err = "" /\ call.n = 2
    /\ Cardinality(DelayRows(call.src.rows, Len(call.src.rows))) >= 2
    /\ Len(call.ret) = 1

\* C2: a load_data call reads the source exactly when its argument has no
\* cached result; a call with a cached argument returns the cached content; and
\* no call changes or drops a cached result
C2_ReadOnlyOnMiss ==
    [][ /\ call'.read <=> (call'.n \notin DOMAIN cache)
        /\ (call'.n \in DOMAIN cache) => (call'.err = "" /\ call'.ret = cache[call'.n])
        /\ \A k \in DOMAIN cache : k \in DOMAIN cache' /\ cache'[k] = cache[k]
        /\ (call'.read /\ call'.err = "") =>
              (call'.n \in DOMAIN cache' /\ cache'[call'.n] = call'.ret)
      ]_vars

\* a call answered from the cache while another argument is cached with a
\* different content
C2_Witness ==
    /\ ~call.read /\ call.n = 2 /\ call.ret = cache[2]
    /\ DefaultNrows \in DOMAIN cache
    /\ cache[DefaultNrows] # cache[2]

Matches(r) ==
    /\ airline # None /\ month # None
    /\ r.AIRLINE = airline[1] /\ r.MONTH = month[1]

\* C3: the filtered subset holds exactly the rows of the full dataset with
\* AIRLINE = carrier and MONTH = month, in their original relative order
C3_FilterExact ==
    status = "ok" =>
        /\ \A i \in 1..Len(filtered) :
              Matches(filtered[i]) /\ (\E j \in 1..Len(df) : df[j] = filtered[i])
        /\ \A j \in 1..Len(df) :
              Matches(df[j]) => (\E i \in 1..Len(filtered) : filtered[i] = df[j])
        /\ \A i \in 1..Len(filtered) - 1 : filtered[i].idx < filtered[i + 1].idx
        /\ Len(filtered) <= Len(df)

\* two matching rows around one that does not match
C3_Witness ==
    /\ status = "ok" /\ Len(df) = 3 /\ Len(filtered) = 2
    /\ filtered[1] = df[1] /\ filtered[2] = df[3]
    /\ df[2].AIRLINE = airline[1] /\ df[2].MONTH # month[1]

Airports(f) == {f[i].ORIGIN_AIRPORT : i \in 1..Len(f)}

RowsAt(f, a) == {i \in 1..Len(f) : f[i].ORIGIN_AIRPORT = a}

FirstPos(f, a) == Min(RowsAt(f, a))

\* the parts of C4 that do not depend on how equal counts are ordered
Top5Shape ==
    LET kept == {counts[i].ORIGIN_AIRPORT : i \in 1..Len(counts)}
        all == Airports(filtered)
    IN  /\ Len(counts) = (IF Cardinality(all) < 5 THEN Cardinality(all) ELSE 5)
        /\ Cardinality(kept) = Len(counts)
        /\ kept \subseteq all
        /\ \A i \in 1..Len(counts) :
              counts[i].count = Cardinality(RowsAt(filtered, counts[i].ORIGIN_AIRPORT))
        /\ \A i \in 1..Len(counts) - 1 : counts[i].count >= counts[i + 1].count
        /\ \A a \in all \ kept : \A i \in 1..Len(counts) :
              Cardinality(RowsAt(filtered, a)) <= counts[i].count

\* equal counts appear in the table in order of first appearance in the subset
TiesInFirstAppearanceOrder ==
    \A i \in 1..Len(counts) : \A j \in 1..Len(counts) :
        (i < j /\ counts[i].count = counts[j].count) =>
            FirstPos(filtered, counts[i].ORIGIN_AIRPORT)
                < FirstPos(filtered, counts[j].ORIGIN_AIRPORT)

RECURSIVE DelaySum(_, _)
\* the sum of the delays of the rows of d at the positions J
DelaySum(d, J) ==
    IF J = {} THEN 0
    ELSE LET j == CHOOSE j \in J : TRUE
         IN  d[j].DEPARTURE_DELAY[1] + DelaySum(d, J \ {j})

\* mu is the mean of the rows of d at the positions J
IsMeanOf(mu, d, J) ==
    /\ J # {}
    /\ mu.den > 0
    /\ mu.num * Cardinality(J) = DelaySum(d, J) * mu.den

MonthRows(m) == {j \in 1..Len(df) : df[j].MONTH = m}

RECURSIVE WeightedTotal(_)
\* sum over the rows of the monthly table of mean * count
WeightedTotal(k) ==
    IF k = 0 THEN 0
    ELSE LET mu == monthly[k].retard_moyen
             c == Cardinality(MonthRows(monthly[k].MONTH))
         IN  (mu.num * c) \div mu.den + WeightedTotal(k - 1)

CellRows(a, d) ==
    {i \in 1..Len(filtered) : filtered[i].ORIGIN_AIRPORT = a /\ filtered[i].DAY = d}

\* C6: the day x airport matrix has at most 5 rows, its row labels are the
\* top-5 airports, its columns are the days occurring among the subset rows of
\* those airports, and a cell is defined exactly when a row of that airport and
\* day exists, and then holds the mean delay of those rows
C6_HeatMatrix ==
    status = "ok" =>
        LET ix == heat_pivot.index
            cs == heat_pivot.columns
        IN  /\ Len(ix) <= 5
            /\ Cardinality(Range(ix)) = Len(ix)
            /\ Cardinality(Range(cs)) = Len(cs)
            /\ Range(ix) = Range(top5_airports)
            /\ Range(cs) = {filtered[i].DAY : i \in {j \in 1..Len(filtered) :
                                filtered[j].ORIGIN_AIRPORT \in Range(top5_airports)}}
            /\ DOMAIN heat_pivot.values = Range(ix) \X Range(cs)
            /\ \A a \in Range(ix) : \A d \in Range(cs) :
                  LET cell == heat_pivot.values[<<a, d>>]
                  IN  IF CellRows(a, d) = {} THEN cell = NaN
                      ELSE cell # NaN /\ IsMeanOf(cell[1], filtered, CellRows(a, d))

\* five airports kept and one dropped, a day flown only from the dropped
\* airport, an absent cell, and a cell that averages two flights
C6_Witness ==
    /\ status = "ok" /\ Len(heat_pivot.index) = 5
    /\ \E i \in 1..Len(filtered) : filtered[i].DAY \notin Range(heat_pivot.columns)
    /\ \E p \in DOMAIN heat_pivot.values : heat_pivot.values[p] = NaN
    /\ \E p \in DOMAIN heat_pivot.values : Cardinality(CellRows(p[1], p[2])) = 2

InUi(e) == \E i \in 1..Len(ui) : ui[i] = e

\* C7: an empty filter gives an empty daily table, the "no data" warning and
\* no scatter-matrix call; a non-empty filter gives the rendered scatter
\* matrix and no warning
C7_EmptySelection ==
    status = "ok" =>
        /\ filtered = << >> =>
              /\ trend = << >>
              /\ InUi("warning:no_data")
              /\ ~InUi("scatter_matrix") /\ ~InUi("pyplot")
        /\ filtered # << >> =>
              /\ InUi("scatter_matrix") /\ InUi("pyplot")
              /\ ~InUi("warning:no_data") /\ ~InUi("warning:columns")

LaterStages ==
    {"success", "dataframe", "sidebar.header", "sidebar.selectbox:Compagnie",
     "sidebar.select_slider:Mois", "sidebar.selectbox:Mois", "tabs", "bar:monthly",
     "line:trend", "bar:counts", "box:df_top5", "imshow:heat_pivot", "subheader",
     "scatter_matrix", "pyplot", "warning:no_data", "warning:columns"}

\* C8: a read of an unreadable source, or of one without a required column,
\* makes load_data raise; the run shows the exception and nothing of the later
\* stages, and no dataset is stored or bound in place of the failed load
C8_LoadFailureIsFatal ==
    /\ (call.read /\ call.src.state \in {"unreadable", "missing_column"}) =>
          /\ call.err # ""
          /\ status = "error"
          /\ DefaultNrows \notin DOMAIN cache
    /\ status = "error" =>
          /\ InUi("exception")
          /\ \A e \in LaterStages : ~InUi(e)
          /\ df = << >> /\ preview = << >> /\ airline_opts = << >> /\ months = << >>
          /\ month_widget = "" /\ monthly = << >> /\ trend = << >> /\ counts = << >>
          /\ heat_pivot = EmptyPivot /\ scatter_matrix_df = << >>

\* the source lacks a column and the run has ended on the exception
C8_Witness ==
    /\ status = "error" /\ call.read /\ call.src.state = "missing_column"
    /\ call.err = "ValueError" /\ ui = <<"title", "exception">>

DfMonths == {df[j].MONTH : j \in 1..Len(df)}

\* C9: with one distinct month the month control is a selectbox over that one
\* value; with more it is a select_slider over the ascending months, at the
\* smallest month until the user moves it; in both cases the month and the
\* carrier fed to the filter are values of the full dataset
C9_MonthControl ==
    status = "ok" =>
        /\ Cardinality(DfMonths) = 1 =>
              /\ month_widget = "selectbox" /\ InUi("sidebar.selectbox:Mois")
              /\ ~InUi("sidebar.select_slider:Mois")
              /\ Len(months) = 1 /\ months[1] \in DfMonths
              /\ month = Some(months[1])
        /\ Cardinality(DfMonths) > 1 =>
              /\ month_widget = "select_slider" /\ InUi("sidebar.select_slider:Mois")
              /\ ~InUi("sidebar.selectbox:Mois")
              /\ Range(months) = DfMonths /\ Len(months) = Cardinality(DfMonths)
              /\ \A k \in 1..Len(months) - 1 : months[k] < months[k + 1]
              /\ call.read => month = Some(Min(DfMonths))
        /\ Cardinality(DfMonths) >= 1 =>
              /\ month # None /\ month[1] \in DfMonths
              /\ airline # None /\ airline[1] \in {df[j].AIRLINE : j \in 1..Len(df)}

\* a dataset of several flights that all fall in one month
C9_Witness ==
    /\ status = "ok" /\ Len(df) >= 2 /\ Cardinality(DfMonths) = 1
    /\ month_widget = "selectbox" /\ month = Some(2)

NoMissingDelay(t) == \A i \in 1..Len(t) : t[i].DEPARTURE_DELAY # NaN

\* the derived values of a complete run, as functions of df, airline and month
DerivedFromSelection ==
    /\ filtered = Filtered(df, airline, month)
    /\ monthly = Monthly(df)
    /\ trend = Trend(filtered)
    /\ counts \in Counts(filtered)
    /\ top5_airports = Top5Airports(counts)
    /\ df_top5 = DfTop5(filtered, top5_airports)
    /\ heat = Heat(df_top5)
    /\ heat_pivot = HeatPivot(heat)
    /\ scatter_matrix_df = ScatterMatrixDf(filtered)

\* C10: no run changes a memoized dataset; the full dataset of every complete
\* run is the memoized one; no record with a missing delay is in it or in a
\* derived view; and the derived values depend on nothing but the full dataset
\* and the run's carrier and month
C10_Frame ==
    /\ [][ /\ \A k \in DOMAIN cache : k \in DOMAIN cache' /\ cache'[k] = cache[k]
            /\ (status = "ok" /\ status' = "ok") => df' = df
          ]_vars
    /\ [](status = "ok" =>
              /\ DefaultNrows \in DOMAIN cache /\ df = cache[DefaultNrows]
              /\ NoMissingDelay(df) /\ NoMissingDelay(filtered)
              /\ NoMissingDelay(df_top5) /\ NoMissingDelay(scatter_matrix_df)
              /\ DerivedFromSelection)

\* a rerun answered from the cache, after the user changed carrier and month,
\* over a dataset whose first source row was dropped for its missing delay
C10_Witness ==
    /\ status = "ok" /\ ~call.read
    /\ Len(df) = 2 /\ df[1].idx = 1
    /\ airline = Some("UA") /\ month = Some(2)
    /\ Len(filtered) = 1

====
